---- MODULE Spec2Model ----
(***************************************************************************)
(* A model of lib/primitives/abstractblock.js: one AbstractBlock object,   *)
(* its six header fields, the mutable flag, the hash and size caches, and  *)
(* the operations parseOptions, parseJSON, parseAbbr, refresh, hash,       *)
(* abbr, powHash, verify, verifyPOW, verifyBody, rhash and toInv.          *)
(*                                                                         *)
(* Buffers are sequences of bytes (0..255).  Strings that the code treats  *)
(* as hex are sequences of one-character strings.  JavaScript values that  *)
(* cross the API (option members, return values) are tagged records.       *)
(* Numbers stay below 2^31, the range TLC's integers cover.                *)
(***************************************************************************)
EXTENDS Integers, Sequences, FiniteSets, TLC

(***************************************************************************)
(* Bounds of the model.                                                    *)
(***************************************************************************)
\* header field tuples offered as inputs: Variant(0) .. Variant(MaxVariant)
MaxVariant == 6
\* longest transaction vector a block carries
MaxTxs == 2

(***************************************************************************)
(* JavaScript values.                                                      *)
(***************************************************************************)
Null == <<>>
Undef == [t |-> "undefined"]
Num(n) == [t |-> "number", n |-> n]
Str(s) == [t |-> "string", s |-> s]
Bool(b) == [t |-> "boolean", b |-> b]
Buf(d) == [t |-> "buffer", d |-> d]
JSNull == [t |-> "null"]

\* !!v
Truthy(v) ==
  CASE v.t = "undefined" -> FALSE
    [] v.t = "null" -> FALSE
    [] v.t = "boolean" -> v.b
    [] v.t = "number" -> v.n # 0
    [] v.t = "string" -> v.s # <<>>
    [] OTHER -> TRUE

\* util.isNumber(v)
isNumber(v) == v.t = "number"

\* typeof v === 'string'
isString(v) == v.t = "string"

(***************************************************************************)
(* Hex strings and buffers.                                                *)
(***************************************************************************)
HashSize == 32
AbbrSize == 80

HexDigits == <<"0", "1", "2", "3", "4", "5", "6", "7",
               "8", "9", "a", "b", "c", "d", "e", "f">>

HexVal(c) == (CHOOSE i \in 1..16 : HexDigits[i] = c) - 1

\* Buffer.prototype.toString('hex')
toHex(data) ==
  [i \in 1..(2 * Len(data)) |->
     IF i % 2 = 1 THEN HexDigits[(data[(i + 1) \div 2] \div 16) + 1]
     ELSE HexDigits[(data[i \div 2] % 16) + 1]]

\* Buffer.from(str, 'hex')
fromHex(str) ==
  [i \in 1..(Len(str) \div 2) |->
     16 * HexVal(str[2 * i - 1]) + HexVal(str[2 * i])]

\* util.revHex(str): the byte pairs of str in reverse order
revHex(str) ==
  [i \in 1..Len(str) |->
     IF i % 2 = 1 THEN str[Len(str) - i] ELSE str[Len(str) - i + 2]]

\* encoding.NULL_HASH
NULL_HASH == [i \in 1..(2 * HashSize) |-> "0"]

(***************************************************************************)
(* The header field tuples used as inputs.                                 *)
(***************************************************************************)
\* a 32-byte hash as hex; HashN(0) = NULL_HASH
HashN(k) == [i \in 1..(2 * HashSize) |-> HexDigits[((i * k) % 16) + 1]]

BaseFields ==
  [version |-> 1, prevBlock |-> NULL_HASH, merkleRoot |-> HashN(3),
   ts |-> 1231006505, bits |-> 545259519, nonce |-> 2083236893]

\* Variant(0) is BaseFields; Variant(i) differs from it in one field
Variant(i) ==
  IF i = 0 THEN BaseFields
  ELSE LET f == (i - 1) % 6
           d == ((i - 1) \div 6) + 1
       IN CASE f = 0 -> [BaseFields EXCEPT !.version = @ + d]
            [] f = 1 -> [BaseFields EXCEPT !.prevBlock = HashN(d)]
            [] f = 2 -> [BaseFields EXCEPT !.merkleRoot = HashN(3 + d)]
            [] f = 3 -> [BaseFields EXCEPT !.ts = @ + d]
            [] f = 4 -> [BaseFields EXCEPT !.bits = @ - (65536 * d)]
            [] f = 5 -> [BaseFields EXCEPT !.nonce = @ + d]

FieldTuples == {Variant(i) : i \in 0..MaxVariant}

(***************************************************************************)
(* utils/staticwriter and utils/reader, as abbr(), writeAbbr() and         *)
(* parseAbbr() use them.                                                   *)
(***************************************************************************)
\* the four bytes of an unsigned 32-bit integer, least significant first
U32LE(n) ==
  <<n % 256, (n \div 256) % 256, (n \div 65536) % 256, (n \div 16777216) % 256>>

\* new StaticWriter(size)
StaticWriter(size) == [size |-> size, data |-> <<>>]

\* bw.writeU32(value)
writeU32(bw, value) == [bw EXCEPT !.data = @ \o U32LE(value)]

\* bw.writeHash(value), value a hex string
writeHash(bw, value) == [bw EXCEPT !.data = @ \o fromHex(value)]

\* bw.render()
render(bw) == bw.data

\* new BufferReader(data)
BufferReader(data) == [data |-> data, offset |-> 0]

\* bytes left in the reader
left(br) == Len(br.data) - br.offset

\* br.readU32(): fails when fewer than 4 bytes remain
readU32(br) ==
  IF left(br) < 4 THEN [ok |-> FALSE, br |-> br]
  ELSE [ok |-> TRUE,
        v |-> br.data[br.offset + 1] + 256 * br.data[br.offset + 2]
              + 65536 * br.data[br.offset + 3]
              + 16777216 * br.data[br.offset + 4],
        br |-> [br EXCEPT !.offset = @ + 4]]

\* br.readHash('hex'): fails when fewer than 32 bytes remain
readHash(br) ==
  IF left(br) < HashSize THEN [ok |-> FALSE, br |-> br]
  ELSE [ok |-> TRUE,
        v |-> toHex(SubSeq(br.data, br.offset + 1, br.offset + HashSize)),
        br |-> [br EXCEPT !.offset = @ + HashSize]]

(***************************************************************************)
(* crypto.hash256, crypto/scrypt and protocol/consensus.  The digests are  *)
(* deterministic 32-byte functions of the input bytes that stand for the   *)
(* real ones; they differ from each other and from the identity.           *)
(***************************************************************************)
At(data, j) == IF j <= Len(data) THEN data[j] ELSE 0

\* crypto.hash256(data)
hash256(data) ==
  [i \in 1..HashSize |->
     (At(data, i) + 31 * At(data, i + 32) + 17 * At(data, i + 64) + i) % 256]

\* scrypt(passwd, salt, N, r, p, len)
scrypt(passwd, salt, N, r, p, len) ==
  [i \in 1..len |->
     (7 * At(passwd, i) + 13 * At(salt, i + 32) + 3 * At(passwd, i + 64)
      + 11 * At(passwd, 1 + (i % 4)) + 19 * At(salt, 69 + (i % 4))
      + 23 * At(passwd, 73 + (i % 4)) + 29 * At(salt, 77 + (i % 4))
      + 5 * i + N + r + p) % 256]

\* consensus.fromCompact(bits): sign, and the target as 32 bytes,
\* least significant first, with a flag for a target of 2^256 or more
fromCompact(compact) ==
  LET exponent == compact \div 16777216
      negative == (compact \div 8388608) % 2 = 1
      mantissa == compact % 8388608
      mbyte(m) == (mantissa \div (256 ^ m)) % 256
      \* byte k (0-based) of mantissa * 256^(exponent - 3)
      tbyte(k) == LET m == k - (exponent - 3)
                  IN IF m \in 0..2 THEN mbyte(m) ELSE 0
  IN [neg |-> negative /\ mantissa # 0,
      bytes |-> [k \in 1..HashSize |-> tbyte(k - 1)],
      over |-> \E m \in 0..2 : mbyte(m) # 0 /\ m + exponent - 3 >= HashSize]

RECURSIVE cmpLE(_, _, _)
\* a <= b for two numbers given as bytes, least significant first
cmpLE(a, b, i) ==
  IF i = 0 THEN TRUE
  ELSE IF a[i] < b[i] THEN TRUE
  ELSE IF a[i] > b[i] THEN FALSE
  ELSE cmpLE(a, b, i - 1)

\* consensus.verifyPOW(hash, bits)
consensusVerifyPOW(hash, bits) ==
  LET target == fromCompact(bits)
      zero == ~target.over /\ \A k \in 1..HashSize : target.bytes[k] = 0
  IN IF target.neg \/ zero THEN FALSE
     ELSE IF target.over THEN TRUE
     ELSE cmpLE(hash, target.bytes, HashSize)

(***************************************************************************)
(* The AbstractBlock object.                                               *)
(***************************************************************************)
\* the object the constructor leaves, for a variant with transaction
\* vector t (Null for the abstract block itself)
AbstractBlock(t) ==
  [version |-> 1, prevBlock |-> NULL_HASH, merkleRoot |-> NULL_HASH,
   ts |-> 0, bits |-> 0, nonce |-> 0,
   txs |-> t, mutable |-> FALSE,
   _hash |-> Null, _hhash |-> Null, _size |-> -1, _witness |-> -1]

\* the six header fields of an object
Fields(h) ==
  [version |-> h.version, prevBlock |-> h.prevBlock,
   merkleRoot |-> h.merkleRoot, ts |-> h.ts, bits |-> h.bits,
   nonce |-> h.nonce]

\* what an operation hands back: the object after it, the value returned,
\* the error thrown ("none" when it returns) and the calls it made on
\* its collaborators
Result(h, ret, err, calls) ==
  [h |-> h, ret |-> ret, err |-> err, calls |-> calls]

Return(h, ret) == Result(h, ret, "none", <<>>)

Throw(h, err) == Result(h, Undef, err, <<>>)

\* the assertions at the head of parseOptions and parseJSON
assertBlockData(options) ==
  /\ options.t = "object"
  /\ isNumber(options.version)
  /\ isString(options.prevBlock)
  /\ isString(options.merkleRoot)
  /\ isNumber(options.ts)
  /\ isNumber(options.bits)
  /\ isNumber(options.nonce)

\* parseOptions with each assertion made just before its assignment
parseOptionsAssertLate(h, options) ==
  IF options.t # "object" THEN Throw(h, "AssertionError") ELSE
  IF ~isNumber(options.version) THEN Throw(h, "AssertionError") ELSE
  LET h1 == [h EXCEPT !.version = options.version.n] IN
  IF ~isString(options.prevBlock) THEN Throw(h1, "AssertionError") ELSE
  LET h2 == [h1 EXCEPT !.prevBlock = options.prevBlock.s] IN
  IF ~isString(options.merkleRoot) THEN Throw(h2, "AssertionError") ELSE
  LET h3 == [h2 EXCEPT !.merkleRoot = options.merkleRoot.s] IN
  IF ~isNumber(options.ts) THEN Throw(h3, "AssertionError") ELSE
  LET h4 == [h3 EXCEPT !.ts = options.ts.n] IN
  IF ~isNumber(options.bits) THEN Throw(h4, "AssertionError") ELSE
  LET h5 == [h4 EXCEPT !.bits = options.bits.n] IN
  IF ~isNumber(options.nonce) THEN Throw(h5, "AssertionError") ELSE
  LET h6 == [h5 EXCEPT !.nonce = options.nonce.n]
      h7 == IF options.mutable.t \notin {"undefined", "null"}
            THEN [h6 EXCEPT !.mutable = Truthy(options.mutable)]
            ELSE h6
  IN Return(h7, Undef)

\* parseOptions that sets the mutable flag whether or not it is supplied
parseOptionsSetsMutable(h, options) ==
  IF ~assertBlockData(options) THEN Throw(h, "AssertionError")
  ELSE Return([h EXCEPT !.version = options.version.n,
                        !.prevBlock = options.prevBlock.s,
                        !.merkleRoot = options.merkleRoot.s,
                        !.ts = options.ts.n,
                        !.bits = options.bits.n,
                        !.nonce = options.nonce.n,
                        !.mutable = Truthy(options.mutable)],
              Undef)

\* AbstractBlock.prototype.parseOptions
parseOptions(h, options) ==
  IF ~assertBlockData(options) THEN Throw(h, "AssertionError")
  ELSE LET h1 == [h EXCEPT !.version = options.version.n,
                           !.prevBlock = options.prevBlock.s,
                           !.merkleRoot = options.merkleRoot.s,
                           !.ts = options.ts.n,
                           !.bits = options.bits.n,
                           !.nonce = options.nonce.n]
           h2 == IF options.mutable.t \notin {"undefined", "null"}
                 THEN [h1 EXCEPT !.mutable = Truthy(options.mutable)]
                 ELSE h1
       IN Return(h2, Undef)

\* parseJSON that refreshes the header it has filled
parseJSONRefreshes(h, json) ==
  IF ~assertBlockData(json) THEN Throw(h, "AssertionError")
  ELSE Return([h EXCEPT !.version = json.version.n,
                        !.prevBlock = revHex(json.prevBlock.s),
                        !.merkleRoot = revHex(json.merkleRoot.s),
                        !.ts = json.ts.n,
                        !.bits = json.bits.n,
                        !.nonce = json.nonce.n,
                        !._hash = Null, !._hhash = Null,
                        !._size = -1, !._witness = -1],
              Undef)

\* AbstractBlock.prototype.parseJSON
parseJSON(h, json) ==
  IF ~assertBlockData(json) THEN Throw(h, "AssertionError")
  ELSE Return([h EXCEPT !.version = json.version.n,
                        !.prevBlock = revHex(json.prevBlock.s),
                        !.merkleRoot = revHex(json.merkleRoot.s),
                        !.ts = json.ts.n,
                        !.bits = json.bits.n,
                        !.nonce = json.nonce.n],
              Undef)

\* _refresh that returns before it clears anything unless all is set
refreshOnlyDeep(h, all) ==
  IF ~all THEN Return(h, Undef)
  ELSE LET h1 == [h EXCEPT !._hash = Null, !._hhash = Null,
                           !._size = -1, !._witness = -1]
       IN IF h.txs = Null THEN Return(h1, Undef)
          ELSE Result(h1, Undef, "none",
                      [i \in 1..Len(h.txs) |-> [fn |-> "tx.refresh", tx |-> h.txs[i]]])

\* _refresh whose loop stops one transaction short
refreshSkipsLast(h, all) ==
  LET h1 == [h EXCEPT !._hash = Null, !._hhash = Null,
                      !._size = -1, !._witness = -1]
  IN IF ~all THEN Return(h1, Undef)
     ELSE IF h.txs = Null THEN Return(h1, Undef)
     ELSE Result(h1, Undef, "none",
                 [i \in 1..(Len(h.txs) - 1) |->
                    [fn |-> "tx.refresh", tx |-> h.txs[i]]])

\* _refresh with the hex cache forgotten
refreshKeepsHex(h, all) ==
  LET h1 == [h EXCEPT !._hash = Null, !._size = -1, !._witness = -1]
  IN IF ~all THEN Return(h1, Undef)
     ELSE IF h.txs = Null THEN Return(h1, Undef)
     ELSE Result(h1, Undef, "none",
                 [i \in 1..Len(h.txs) |-> [fn |-> "tx.refresh", tx |-> h.txs[i]]])

\* AbstractBlock.prototype._refresh and refresh
refresh(h, all) ==
  LET h1 == [h EXCEPT !._hash = Null, !._hhash = Null,
                      !._size = -1, !._witness = -1]
  IN IF ~all THEN Return(h1, Undef)
     ELSE IF h.txs = Null THEN Return(h1, Undef)
     ELSE Result(h1, Undef, "none",
                 [i \in 1..Len(h.txs) |-> [fn |-> "tx.refresh", tx |-> h.txs[i]]])

\* writeAbbr with the timestamp and the bits in each other's place
writeAbbrBitsFirst(h, bw) ==
  LET b1 == writeU32(bw, h.version)
      b2 == writeHash(b1, h.prevBlock)
      b3 == writeHash(b2, h.merkleRoot)
      b4 == writeU32(b3, h.bits)
      b5 == writeU32(b4, h.ts)
      b6 == writeU32(b5, h.nonce)
  IN b6

\* AbstractBlock.prototype.writeAbbr
writeAbbr(h, bw) ==
  LET b1 == writeU32(bw, h.version)
      b2 == writeHash(b1, h.prevBlock)
      b3 == writeHash(b2, h.merkleRoot)
      b4 == writeU32(b3, h.ts)
      b5 == writeU32(b4, h.bits)
      b6 == writeU32(b5, h.nonce)
  IN b6

\* AbstractBlock.prototype.abbr
abbr(h) == render(writeAbbr(h, StaticWriter(AbbrSize)))

\* AbstractBlock.prototype.parseAbbr
parseAbbr(h, br) ==
  LET r1 == readU32(br) IN
  IF ~r1.ok THEN Throw(h, "AssertionError") ELSE
  LET h1 == [h EXCEPT !.version = r1.v]
      r2 == readHash(r1.br) IN
  IF ~r2.ok THEN Throw(h1, "AssertionError") ELSE
  LET h2 == [h1 EXCEPT !.prevBlock = r2.v]
      r3 == readHash(r2.br) IN
  IF ~r3.ok THEN Throw(h2, "AssertionError") ELSE
  LET h3 == [h2 EXCEPT !.merkleRoot = r3.v]
      r4 == readU32(r3.br) IN
  IF ~r4.ok THEN Throw(h3, "AssertionError") ELSE
  LET h4 == [h3 EXCEPT !.ts = r4.v]
      r5 == readU32(r4.br) IN
  IF ~r5.ok THEN Throw(h4, "AssertionError") ELSE
  LET h5 == [h4 EXCEPT !.bits = r5.v]
      r6 == readU32(r5.br) IN
  IF ~r6.ok THEN Throw(h5, "AssertionError") ELSE
  Return([h5 EXCEPT !.nonce = r6.v], Undef)

\* hash with the hex form computed from the fields, not from the raw hash
hashHexRecomputed(h, enc) ==
  LET cached == h._hash
      hash1 == IF cached = Null THEN hash256(abbr(h)) ELSE cached
      h1 == IF cached = Null /\ ~h.mutable
            THEN [h EXCEPT !._hash = hash1] ELSE h
  IN IF enc = "hex"
     THEN LET chex == h1._hhash
              hex == IF chex = Null THEN toHex(hash256(abbr(h))) ELSE chex
              h2 == IF chex = Null /\ ~h1.mutable
                    THEN [h1 EXCEPT !._hhash = hex] ELSE h1
          IN Return(h2, Str(hex))
     ELSE Return(h1, Buf(hash1))

\* hash that recomputes and stores on every call of an immutable header
hashAlwaysStores(h, enc) ==
  LET hash1 == hash256(abbr(h))
      h1 == IF ~h.mutable THEN [h EXCEPT !._hash = hash1] ELSE h
  IN IF enc = "hex"
     THEN LET hex == toHex(hash1)
              h2 == IF ~h1.mutable THEN [h1 EXCEPT !._hhash = hex] ELSE h1
          IN Return(h2, Str(hex))
     ELSE Return(h1, Buf(hash1))

\* AbstractBlock.prototype.hash; enc is "hex" or "null"
hash(h, enc) ==
  LET cached == h._hash
      hash1 == IF cached = Null THEN hash256(abbr(h)) ELSE cached
      h1 == IF cached = Null /\ ~h.mutable
            THEN [h EXCEPT !._hash = hash1] ELSE h
  IN IF enc = "hex"
     THEN LET chex == h1._hhash
              hex == IF chex = Null THEN toHex(hash1) ELSE chex
              h2 == IF chex = Null /\ ~h1.mutable
                    THEN [h1 EXCEPT !._hhash = hex] ELSE h1
          IN Return(h2, Str(hex))
     ELSE Return(h1, Buf(hash1))

\* powHash over the identity hash instead of the 80 bytes
powHashOfHash(h) ==
  LET data == hash(h, "null").ret.d
  IN scrypt(data, data, 1024, 1, 1, 32)

\* AbstractBlock.prototype.powHash
powHash(h) ==
  LET data == abbr(h)
  IN scrypt(data, data, 1024, 1, 1, 32)

\* AbstractBlock.prototype.verifyPOW
verifyPOW(h) == consensusVerifyPOW(powHash(h), h.bits)

\* verifyBody with a default that passes instead of the abstract method
verifyBodyDefault(kind, body) ==
  IF kind = "AbstractBlock"
  THEN [err |-> "none", ret |-> Bool(TRUE)]
  ELSE [err |-> "none", ret |-> body]

\* AbstractBlock.prototype.verifyBody: the abstract method throws; a
\* variant that supplies it returns the value body
verifyBody(kind, body) ==
  IF kind = "AbstractBlock"
  THEN [err |-> "Error: Abstract method.", ret |-> Undef]
  ELSE [err |-> "none", ret |-> body]

\* verify with the body checked before the proof of work
verifyBodyFirst(h, kind, body) ==
  LET b == verifyBody(kind, body)
  IN IF b.err # "none"
     THEN Result(h, Undef, b.err, <<"verifyBody">>)
     ELSE IF ~Truthy(b.ret)
     THEN Result(h, Bool(FALSE), "none", <<"verifyBody">>)
     ELSE IF ~verifyPOW(h)
     THEN Result(h, Bool(FALSE), "none", <<"verifyBody", "verifyPOW">>)
     ELSE Result(h, Bool(TRUE), "none", <<"verifyBody", "verifyPOW">>)

\* verify that hands back what verifyBody returned
verifyReturnsBody(h, kind, body) ==
  IF ~verifyPOW(h) THEN Result(h, Bool(FALSE), "none", <<"verifyPOW">>)
  ELSE LET b == verifyBody(kind, body)
       IN IF b.err # "none"
          THEN Result(h, Undef, b.err, <<"verifyPOW", "verifyBody">>)
          ELSE Result(h, b.ret, "none", <<"verifyPOW", "verifyBody">>)

\* AbstractBlock.prototype.verify
verify(h, kind, body) ==
  IF ~verifyPOW(h) THEN Result(h, Bool(FALSE), "none", <<"verifyPOW">>)
  ELSE LET b == verifyBody(kind, body)
       IN IF b.err # "none"
          THEN Result(h, Undef, b.err, <<"verifyPOW", "verifyBody">>)
          ELSE IF ~Truthy(b.ret)
          THEN Result(h, Bool(FALSE), "none", <<"verifyPOW", "verifyBody">>)
          ELSE Result(h, Bool(TRUE), "none", <<"verifyPOW", "verifyBody">>)

\* AbstractBlock.prototype.rhash
rhash(h) ==
  LET r == hash(h, "hex")
  IN Return(r.h, Str(revHex(r.ret.s)))

\* AbstractBlock.prototype.toInv
toInv(h) ==
  LET r == hash(h, "hex")
  IN Return(r.h, [t |-> "InvItem", type |-> "BLOCK", hash |-> r.ret.s])

(***************************************************************************)
(* Inputs.                                                                 *)
(***************************************************************************)
\* an options object carrying the fields f and the member m as its
\* mutable flag
Options(f, m) ==
  [t |-> "object",
   version |-> Num(f.version), prevBlock |-> Str(f.prevBlock),
   merkleRoot |-> Str(f.merkleRoot), ts |-> Num(f.ts),
   bits |-> Num(f.bits), nonce |-> Num(f.nonce), mutable |-> m]

\* the json object that displays the fields f: the two hashes reversed
Display(f) ==
  Options([f EXCEPT !.prevBlock = revHex(@), !.merkleRoot = revHex(@)], Undef)

MutableInputs == {Undef, JSNull, Bool(TRUE), Bool(FALSE), Num(1)}

ValidOptions == {Options(f, m) : f \in FieldTuples, m \in MutableInputs}

ValidJSON == {Display(f) : f \in FieldTuples}

\* the wire bytes of the field tuples
ValidWire == {abbr(f) : f \in FieldTuples}

\* a field tuple that differs from the constructor's and from BaseFields
\* in every field
OtherFields ==
  [version |-> 2, prevBlock |-> HashN(1), merkleRoot |-> HashN(5),
   ts |-> 1231006506, bits |-> 545193983, nonce |-> 2083236894]

\* objects that fail an assertion: no object at all, a member of the
\* wrong type, a member missing
InvalidOptions ==
  LET o == Options(OtherFields, Bool(TRUE))
  IN {Undef,
      [o EXCEPT !.version = Str(NULL_HASH)],
      [o EXCEPT !.prevBlock = Num(0)],
      [o EXCEPT !.merkleRoot = Num(0)], [o EXCEPT !.merkleRoot = Undef],
      [o EXCEPT !.ts = Str(NULL_HASH)],
      [o EXCEPT !.bits = Undef],
      [o EXCEPT !.nonce = Str(NULL_HASH)]}

\* the inputs of the parsers when malformed input is of interest
ParseOptionsInputs ==
  {Options(BaseFields, Undef), Options(OtherFields, Undef)} \cup InvalidOptions

ParseJSONInputs == {Display(BaseFields), Display(OtherFields)} \cup InvalidOptions

\* lengths at which a wire header is cut short
ShortLengths == {0, 3, 4, 36, 68, 79}

\* 80 bytes, 80 bytes followed by more, and fewer than 80 bytes
ParseWireInputs ==
  {abbr(BaseFields), abbr(OtherFields) \o <<1, 0>>}
  \cup {SubSeq(abbr(OtherFields), 1, n) : n \in ShortLengths}

\* what a variant's verifyBody may return
BodyInputs == {Bool(TRUE), Bool(FALSE), Num(1), Num(0), Undef}

\* the block-like objects: the abstract block itself, and a variant that
\* supplies verifyBody and a transaction vector
Kinds == {"AbstractBlock", "Block"}

TxVectors(kind) ==
  IF kind = "Block" THEN {[i \in 1..MaxTxs |-> i]} ELSE {Null}

\* sizes a variant caches in _size and _witness
SizeInputs == {[size |-> 285, witness |-> 36]}

(***************************************************************************)
(* State.                                                                  *)
(***************************************************************************)
VARIABLES
  this,        \* the block object: fields, txs, mutable, caches
  kind,        \* which block-like object this is
  lastOp,      \* the operation called last
  arg,         \* its argument
  ret,         \* the value it returned
  err,         \* the error it threw, "none" if it returned
  calls,       \* the calls it made on collaborators, in order
  hashedFrom,  \* <<the fields _hash was computed from>>, Null if no _hash
  refreshed    \* "yes": refresh() was called and hash() was not called
               \* since; "first": hash() was called once since, by the
               \* last hash-calling operation; "no" otherwise

vars == <<this, kind, lastOp, arg, ret, err, calls, hashedFrom, refreshed>>

Init ==
  /\ kind \in Kinds
  /\ \E t \in TxVectors(kind) : this = AbstractBlock(t)
  /\ lastOp = "new"
  /\ arg = Undef
  /\ ret = Undef
  /\ err = "none"
  /\ calls = <<>>
  /\ hashedFrom = Null
  /\ refreshed = "no"

\* operation op, called with a, had the result r
Apply(op, a, r) ==
  /\ this' = r.h
  /\ lastOp' = op
  /\ arg' = a
  /\ ret' = r.ret
  /\ err' = r.err
  /\ calls' = r.calls
  /\ hashedFrom' = IF r.h._hash = this._hash THEN hashedFrom
                   ELSE IF r.h._hash = Null THEN Null
                   ELSE <<Fields(this)>>
  /\ refreshed' = IF op = "refresh" THEN "yes"
                  ELSE IF op \in {"hash", "rhash", "toInv"}
                  THEN (IF refreshed = "yes" THEN "first" ELSE "no")
                  ELSE refreshed
  /\ UNCHANGED kind

FromOptions(inputs) ==
  \E o \in inputs : Apply("fromOptions", o, parseOptions(this, o))

FromJSON(inputs) ==
  \E j \in inputs : Apply("fromJSON", j, parseJSON(this, j))

ReadHeader(inputs) ==
  \E data \in inputs :
    Apply("readHeader", Buf(data), parseAbbr(this, BufferReader(data)))

Refresh == \E all \in BOOLEAN : Apply("refresh", Bool(all), refresh(this, all))

Hash == \E enc \in {"null", "hex"} : Apply("hash", Str(enc), hash(this, enc))

Abbr == Apply("abbr", Undef, Return(this, Buf(abbr(this))))

PowHash == Apply("powHash", Undef, Return(this, Buf(powHash(this))))

VerifyPOW == Apply("verifyPOW", Undef, Return(this, Bool(verifyPOW(this))))

Verify == \E body \in BodyInputs : Apply("verify", body, verify(this, kind, body))

RHash == Apply("rhash", Undef, rhash(this))

ToInv == Apply("toInv", Undef, toInv(this))

\* a variant computes its sizes and caches them
CacheSizes ==
  /\ kind # "AbstractBlock"
  /\ \E s \in SizeInputs :
       Apply("getSizes", Undef,
             Return([this EXCEPT !._size = s.size, !._witness = s.witness], Undef))

(***************************************************************************)
(* Spec: construction, hashing and cache invalidation on well-formed       *)
(* input.                                                                  *)
(***************************************************************************)
Next ==
  \/ FromOptions(ValidOptions)
  \/ FromJSON(ValidJSON)
  \/ ReadHeader(ValidWire)
  \/ Refresh
  \/ Hash
  \/ RHash
  \/ ToInv
  \/ Abbr
  \/ CacheSizes

Spec == Init /\ [][Next]_vars

(***************************************************************************)
(* SpecParse: the parsers on well-formed and malformed input, with         *)
(* hashing in between so that there are caches to keep.                    *)
(***************************************************************************)
NextParse ==
  \/ FromOptions(ParseOptionsInputs)
  \/ FromJSON(ParseJSONInputs)
  \/ ReadHeader(ParseWireInputs)
  \/ Hash

SpecParse == Init /\ [][NextParse]_vars

(***************************************************************************)
(* SpecVerify: verification of headers built from options.                 *)
(***************************************************************************)
NextVerify ==
  \/ FromOptions(ValidOptions)
  \/ PowHash
  \/ VerifyPOW
  \/ Verify

SpecVerify == Init /\ [][NextVerify]_vars

(***************************************************************************)
(* SpecReaders: the operations that read a header (hashes, encoding,       *)
(* proof of work) between constructions from options and refreshes.        *)
(***************************************************************************)
NextReaders ==
  \/ FromOptions(ValidOptions)
  \/ Refresh
  \/ Hash
  \/ RHash
  \/ ToInv
  \/ Abbr
  \/ PowHash
  \/ VerifyPOW

SpecReaders == Init /\ [][NextReaders]_vars

(***************************************************************************)
(* The identity digest of an object's current fields, as hash() is to      *)
(* return it for the encoding enc.                                         *)
(***************************************************************************)
Digest(h) == hash256(abbr(h))

DigestAs(h, enc) == IF enc = "hex" THEN Str(toHex(Digest(h))) ELSE Buf(Digest(h))

HashCachesAbsent == this._hash = Null /\ this._hhash = Null

SizeCachesAbsent == this._size = -1 /\ this._witness = -1

(***************************************************************************)
(* C1.                                                                     *)
(***************************************************************************)
\* C1 as stated: the raw and the hex cache are both absent or both present,
\* and present caches are the digest of the current fields and its hex form
C1_CachesBothCurrent ==
  /\ (this._hash = Null) <=> (this._hhash = Null)
  /\ this._hash # Null => this._hash = Digest(this)
  /\ this._hhash # Null => this._hhash = toHex(Digest(this))

\* C1 amended: the hex cache is present only when the raw cache is, and a
\* present cache is the digest (the hex form of the digest) of the fields
\* as they were when the raw cache was filled
C1_CachesFromHashedFields ==
  /\ this._hhash # Null => this._hash # Null
  /\ (this._hash = Null) <=> (hashedFrom = Null)
  /\ this._hash # Null => this._hash = Digest(hashedFrom[1])
  /\ this._hhash # Null => this._hhash = toHex(Digest(hashedFrom[1]))

\* both caches present, filled from fields that a parser has replaced since
C1_Witness ==
  /\ this._hash # Null
  /\ this._hhash # Null
  /\ hashedFrom # <<Fields(this)>>
  /\ lastOp \in {"fromOptions", "fromJSON", "readHeader"}

(***************************************************************************)
(* C2.                                                                     *)
(***************************************************************************)
\* C2: hash() on a header whose mutable flag is true returns the digest of
\* its current fields, whatever preceded the call
C2_MutableHashIsCurrent ==
  (lastOp = "hash" /\ this.mutable) => ret = DigestAs(this, arg.s)

(***************************************************************************)
(* C3.                                                                     *)
(***************************************************************************)
\* C3: the first hash() after a refresh() on an immutable header returns
\* the digest of the fields at that call, and refresh() leaves the four
\* caches absent
C3_RefreshThenHash ==
  /\ lastOp = "refresh" => HashCachesAbsent /\ SizeCachesAbsent
  /\ (lastOp = "hash" /\ refreshed = "first" /\ ~this.mutable)
       => ret = DigestAs(this, arg.s)

\* the first hash() after a refresh(), on an immutable header that was
\* given other fields than the constructor's
C3_Witness ==
  /\ lastOp = "hash"
  /\ refreshed = "first"
  /\ ~this.mutable
  /\ Fields(this) # Fields(AbstractBlock(Null))
  /\ this._hash # Null

(***************************************************************************)
(* C4.                                                                     *)
(***************************************************************************)
\* C4: hash('hex') returns the hex form of what hash() returns in the same
\* state, and a present hex cache is the hex form of a present raw cache
C4_HexIsHexOfRaw ==
  /\ hash(this, "hex").ret = Str(toHex(hash(this, "null").ret.d))
  /\ this._hhash # Null => this._hash # Null /\ this._hhash = toHex(this._hash)

\* a raw cache that no longer matches the fields, and no hex cache yet
C4_Witness ==
  /\ this._hash # Null
  /\ this._hhash = Null
  /\ this._hash # Digest(this)

(***************************************************************************)
(* C5.                                                                     *)
(***************************************************************************)
\* the positions of the calls of fn among the calls of the last operation
CallsOf(fn) == {i \in DOMAIN calls : calls[i] = fn}

\* C5: verify() checks the proof of work first, checks the body at most
\* once and after the proof of work, and returns false without checking
\* the body when the proof of work fails
C5_PowBeforeBody ==
  lastOp = "verify" =>
    /\ Len(calls) >= 1 /\ calls[1] = "verifyPOW"
    /\ Cardinality(CallsOf("verifyBody")) <= 1
    /\ \A i \in CallsOf("verifyBody") : \E j \in CallsOf("verifyPOW") : j < i
    /\ ~verifyPOW(this) =>
         /\ CallsOf("verifyBody") = {}
         /\ err = "none"
         /\ ret = Bool(FALSE)

\* verify() on a block whose proof of work fails and whose body would pass
C5_Witness ==
  /\ lastOp = "verify"
  /\ kind = "Block"
  /\ ~verifyPOW(this)
  /\ this.bits # 0
  /\ arg = Bool(TRUE)

(***************************************************************************)
(* C6.                                                                     *)
(***************************************************************************)
\* C6: for a variant that supplies verifyBody, verify() returns true when
\* verifyPOW() is true and verifyBody() returns a truthy value, and false
\* in every other case
C6_VerifyIffBoth ==
  (lastOp = "verify" /\ kind # "AbstractBlock") =>
    /\ err = "none"
    /\ ret = Bool(verifyPOW(this) /\ Truthy(arg))

\* verify() returned true for a body result that is truthy but not true
C6_Witness ==
  /\ lastOp = "verify"
  /\ kind = "Block"
  /\ arg = Num(1)
  /\ ret = Bool(TRUE)

(***************************************************************************)
(* C7.                                                                     *)
(***************************************************************************)
\* C7 as stated: verify() returns true or false and raises nothing, on the
\* abstract block too
C7_VerifyNeverRaises ==
  lastOp = "verify" => err = "none" /\ ret \in {Bool(TRUE), Bool(FALSE)}

\* C7 amended: verify() returns true or false and raises nothing for a
\* variant that supplies verifyBody; on the abstract block it returns false
\* when the proof of work fails and raises "Abstract method." when it passes
C7_VerifyRaisesOnlyAbstract ==
  lastOp = "verify" =>
    IF kind = "AbstractBlock" /\ verifyPOW(this)
    THEN err = "Error: Abstract method." /\ ret = Undef
    ELSE err = "none" /\ ret \in {Bool(TRUE), Bool(FALSE)}

\* verify() raised on the abstract block
C7_Witness ==
  /\ lastOp = "verify"
  /\ kind = "AbstractBlock"
  /\ err # "none"

(***************************************************************************)
(* C8.                                                                     *)
(***************************************************************************)
\* the header read back from the 80 bytes of h
Decoded(h) == parseAbbr(AbstractBlock(Null), BufferReader(abbr(h)))

\* C8: readHeader of the encoding of a header gives that header back field
\* for field, and the encoding is 80 bytes: version, prevBlock, merkleRoot,
\* timestamp, bits, nonce
C8_RoundTrip ==
  /\ lastOp = "readHeader" =>
       /\ err = "none"
       /\ \A f \in FieldTuples : arg.d = abbr(f) => Fields(this) = f
  /\ Decoded(this).err = "none"
  /\ Fields(Decoded(this).h) = Fields(this)
  /\ LET e == abbr(this)
     IN /\ Len(e) = AbbrSize
        /\ SubSeq(e, 1, 4) = U32LE(this.version)
        /\ SubSeq(e, 5, 36) = fromHex(this.prevBlock)
        /\ SubSeq(e, 37, 68) = fromHex(this.merkleRoot)
        /\ SubSeq(e, 69, 72) = U32LE(this.ts)
        /\ SubSeq(e, 73, 76) = U32LE(this.bits)
        /\ SubSeq(e, 77, 80) = U32LE(this.nonce)

\* readHeader has decoded the encoding of a header that differs from the
\* constructor's in every field and from BaseFields in its bits
C8_Witness ==
  /\ lastOp = "readHeader"
  /\ err = "none"
  /\ arg.d = abbr(this)
  /\ this.bits # BaseFields.bits
  /\ this.ts # this.bits
  /\ this.prevBlock # this.merkleRoot

(***************************************************************************)
(* C9.                                                                     *)
(***************************************************************************)
\* C9: fromOptions and fromDisplay on an absent object, or on one with a
\* member of the wrong type or without merkleRoot, raise an error and
\* leave the fields, the mutable flag and the caches as they were
C9_InvalidOptionsRejected ==
  [][(lastOp' \in {"fromOptions", "fromJSON"} /\ arg' \in InvalidOptions)
       => (err' = "AssertionError" /\ this' = this)]_vars

\* fromOptions has rejected an object without merkleRoot, on a header that
\* holds both hash caches and other fields than the object's
C9_Witness ==
  /\ lastOp = "fromOptions"
  /\ arg = [Options(OtherFields, Bool(TRUE)) EXCEPT !.merkleRoot = Undef]
  /\ err = "AssertionError"
  /\ this._hash # Null
  /\ this._hhash # Null
  /\ Fields(this) = BaseFields
  /\ ~this.mutable

(***************************************************************************)
(* C10.                                                                    *)
(***************************************************************************)
\* C10: readHeader on fewer than 80 bytes fails and overwrites none of the
\* six fields
C10_ShortReadKeepsFields ==
  [][(lastOp' = "readHeader" /\ Len(arg'.d) < AbbrSize)
       => (err' # "none" /\ Fields(this') = Fields(this))]_vars

(***************************************************************************)
(* C11.                                                                    *)
(***************************************************************************)
\* a freshly constructed immutable header with the fields f and no caches
Fresh(f) ==
  [AbstractBlock(Null) EXCEPT !.version = f.version,
                              !.prevBlock = f.prevBlock,
                              !.merkleRoot = f.merkleRoot,
                              !.ts = f.ts, !.bits = f.bits, !.nonce = f.nonce]

\* C11: powHash() of a header is powHash() of any header with the same six
\* fields, whatever the mutable flags and the hash caches are, and every
\* powHash() call returns the scrypt digest of the current 80 bytes
C11_PowHashOfFieldsOnly ==
  /\ powHash(this) = powHash(Fresh(Fields(this)))
  /\ verifyPOW(this) = verifyPOW(Fresh(Fields(this)))
  /\ lastOp = "powHash" =>
       ret = Buf(scrypt(abbr(Fresh(Fields(this))), abbr(Fresh(Fields(this))),
                        1024, 1, 1, 32))

\* powHash() called on a mutable header whose hash caches were filled from
\* other fields
C11_Witness ==
  /\ lastOp = "powHash"
  /\ this.mutable
  /\ this._hash # Null
  /\ this._hhash # Null
  /\ this._hash # Digest(this)

(***************************************************************************)
(* C12.                                                                    *)
(***************************************************************************)
\* C12: a header whose mutable flag is true holds neither hash cache, and
\* refresh() leaves a header without hash caches
C12_MutableNeverHashed ==
  /\ this.mutable => HashCachesAbsent
  /\ lastOp = "refresh" => HashCachesAbsent

(***************************************************************************)
(* C13.                                                                    *)
(***************************************************************************)
\* the calls of tx.refresh() on the transaction tx in the sequence cs
RefreshesOf(cs, tx) ==
  {j \in DOMAIN cs : cs[j] = [fn |-> "tx.refresh", tx |-> tx]}

\* C13: refresh(true) on a block with a transaction vector calls refresh
\* on each of its transactions exactly once and calls nothing else;
\* refresh() without deep, or on a block without a transaction vector,
\* calls nothing; the six fields, the mutable flag and the transaction
\* vector are as before
C13_DeepRefresh ==
  [][lastOp' = "refresh" =>
       /\ IF arg'.b /\ this.txs # Null
          THEN /\ Len(calls') = Len(this.txs)
               /\ \A i \in DOMAIN this.txs :
                    Cardinality(RefreshesOf(calls', this.txs[i])) = 1
          ELSE calls' = <<>>
       /\ Fields(this') = Fields(this)
       /\ this'.mutable = this.mutable
       /\ this'.txs = this.txs]_vars

\* refresh(true) on a mutable block that carries all its transactions
C13_Witness ==
  /\ lastOp = "refresh"
  /\ arg = Bool(TRUE)
  /\ this.txs # Null
  /\ Len(calls) = MaxTxs
  /\ this.mutable
  /\ Fields(this) = BaseFields

\* refresh(true) on the abstract block, which has no transaction vector
C13_WitnessNoTxs ==
  /\ lastOp = "refresh"
  /\ arg = Bool(TRUE)
  /\ this.txs = Null
  /\ calls = <<>>

(***************************************************************************)
(* C14.                                                                    *)
(***************************************************************************)
\* options.mutable is supplied: it is neither undefined nor null
Supplied(v) == v.t \notin {"undefined", "null"}

\* C14 as stated: after a successful fromOptions the mutable flag is the
\* boolean value of options.mutable when it is supplied, and false when it
\* is not
C14_MutableFromOptionsOrFalse ==
  (lastOp = "fromOptions" /\ err = "none") =>
    this.mutable = (IF Supplied(arg.mutable) THEN Truthy(arg.mutable) ELSE FALSE)

\* C14 amended: after a successful fromOptions the mutable flag is the
\* boolean value of options.mutable when it is supplied, and is what it was
\* before the call when it is not
C14_MutableFromOptionsOrKept ==
  [][(lastOp' = "fromOptions" /\ err' = "none") =>
       this'.mutable = (IF Supplied(arg'.mutable) THEN Truthy(arg'.mutable)
                        ELSE this.mutable)]_vars

\* fromOptions without a mutable member, on a header that an earlier
\* fromOptions made mutable: the flag is still true
C14_Witness ==
  /\ lastOp = "fromOptions"
  /\ err = "none"
  /\ arg.mutable = Undef
  /\ this.mutable

(***************************************************************************)
(* C15.                                                                    *)
(***************************************************************************)
\* the four caches of an object
Caches(h) ==
  [_hash |-> h._hash, _hhash |-> h._hhash,
   _size |-> h._size, _witness |-> h._witness]

\* C15: fromOptions, fromDisplay and readHeader leave the four caches and
\* the transaction vector as they were, and fromDisplay and readHeader
\* leave the mutable flag as it was
C15_ParsersKeepCaches ==
  [][lastOp' \in {"fromOptions", "fromJSON", "readHeader"} =>
       /\ Caches(this') = Caches(this)
       /\ this'.txs = this.txs
       /\ lastOp' # "fromOptions" => this'.mutable = this.mutable]_vars

\* fromDisplay has replaced the fields of a header that holds all four
\* caches
C15_Witness ==
  /\ lastOp = "fromJSON"
  /\ err = "none"
  /\ this._hash # Null
  /\ this._hhash # Null
  /\ this._size # -1
  /\ this._witness # -1
  /\ hashedFrom # <<Fields(this)>>

(***************************************************************************)
(* C16.                                                                    *)
(***************************************************************************)
\* the operations C16 names: they read the header
Readers == {"hash", "rhash", "toInv", "powHash", "verifyPOW", "abbr"}

\* C16: a present raw or hex cache is left as it is by hash(), hash('hex'),
\* rhash(), toInv(), powHash(), verifyPOW() and abbr(); a cache becomes
\* absent by refresh() only; and hash() called twice in a row on an
\* immutable header, with the same encoding, returns the same value
C16_CachesWriteOnce ==
  [][/\ (lastOp' \in Readers /\ this._hash # Null) => this'._hash = this._hash
     /\ (lastOp' \in Readers /\ this._hhash # Null) => this'._hhash = this._hhash
     /\ (this._hash # Null /\ this'._hash = Null) => lastOp' = "refresh"
     /\ (this._hhash # Null /\ this'._hhash = Null) => lastOp' = "refresh"
     /\ (lastOp = "hash" /\ lastOp' = "hash" /\ arg' = arg /\ ~this.mutable)
          => ret' = ret]_vars

\* hash() called on an immutable header whose raw cache was present
\* already, filled from other fields than the header has now
C16_Witness ==
  /\ lastOp = "hash"
  /\ refreshed = "no"
  /\ ~this.mutable
  /\ this._hash # Null
  /\ this._hash # Digest(this)
  /\ ret = Buf(this._hash)

====
